---- MODULE Spec2Model ----
(***************************************************************************)
(* Model of rosbag_io (ros/src/rose_core/src/rosbag_io.cpp): a session     *)
(* that opens one bag for reading (load), answers queries about it         *)
(* (get_connections, get_topics, get_time_range) and exports a filtered    *)
(* copy of it to a new bag (dump).                                         *)
(*                                                                         *)
(* The rosbag library the class is built on (rosbag::Bag, rosbag::View,    *)
(* rosbag::TopicQuery) is modelled by what the calls made in rosbag_io.cpp *)
(* do: a View is a query (topic predicate, start time, end time) evaluated *)
(* over the messages of the bag it was built on; iterating it yields the   *)
(* selected messages ordered by time.                                      *)
(***************************************************************************)
EXTENDS Integers, Sequences, FiniteSets, TLC

\* ---------------------------------------------------------------- bounds
MaxRecs == 2            \* messages in the input recording
MaxTime == 2            \* message timestamps are 1 .. MaxTime

\* ------------------------------------------------------------- constants
TIME_ZERO == 0                  \* ros::Time(0), the "no range" sentinel component
TIME_MIN  == 1                  \* ros::TIME_MIN, the smallest time a message can have
TIME_MAX  == MaxTime + 1        \* ros::TIME_MAX, above every message time

Topics   == {"/a", "/b"}
TopicRank == [t \in Topics |-> IF t = "/a" THEN 1 ELSE 2]   \* std::string operator<
DatatypeOf == [t \in Topics |-> IF t = "/a" THEN "std_msgs/String" ELSE "sensor_msgs/Imu"]

Times    == TIME_MIN .. MaxTime
Requests == {{}, {"/a"}, {"/a", "/b"}}              \* the topics argument: none, one, all
TimeRanges == {r \in (TIME_ZERO .. MaxTime) \X (TIME_ZERO .. MaxTime) : r[1] <= r[2]}

InPath  == "in.bag"             \* the recording that exists from the start
OutPath == "out.bag"            \* a writable path, no file there at the start
BadPath == "/nodir/out.bag"     \* a path at which no file can be created
LoadPaths == {InPath, OutPath}
NoFile == [exists |-> FALSE, msgs |-> <<>>]
File(msgs) == [exists |-> TRUE, msgs |-> msgs]

\* A message as stored in a bag: its topic, its time, the datatype carried by
\* its connection header, and its payload bytes (here: an identifying number).
Message(topic, time, datatype, payload) ==
    [topic |-> topic, time |-> time, datatype |-> datatype, payload |-> payload]

\* Recordings as a recorder leaves them: messages in non-decreasing time order,
\* one datatype per topic, payloads pairwise different.
Recordings ==
    UNION { { [i \in 1..n |-> Message(f[i][1], f[i][2], DatatypeOf[f[i][1]], i)] :
                f \in { g \in [1..n -> Topics \X Times] :
                          \A i \in 1..n : \A j \in 1..n : i < j => g[i][2] <= g[j][2] } } :
            n \in 0..MaxRecs }

\* ------------------------------------------------------------------ state
VARIABLES
    fs,             \* the filesystem: path -> File(messages) or NoFile
    alive,          \* a rosbag_io object exists
    _input_bag,     \* std::string _input_bag
    _bag,           \* rosbag::Bag _bag: is a file open, in which mode, which file
    _view,          \* std::shared_ptr<rosbag::View> _view
    _connections,   \* ConnectionsMap _connections
    ret,            \* the last call: its name, arguments, outcome and return value
    exported        \* history: what the session exposed when it last exported everything

vars == <<fs, alive, _input_bag, _bag, _view, _connections, ret, exported>>

\* ------------------------------------------------------- rosbag::Bag model
ClosedBag == [isOpen |-> FALSE, mode |-> "Write", file |-> ""]   \* Bag::Bag()

\* The messages of the bag _bag has open; a bag that is not open has read none.
BagMessages == IF _bag.isOpen THEN fs[_bag.file].msgs ELSE <<>>

\* ------------------------------------------------------ rosbag::View model
NullView == [null |-> TRUE, all |-> FALSE, topics |-> {}, start_time |-> TIME_ZERO, end_time |-> TIME_ZERO]

\* rosbag::View(bag): every connection, TIME_MIN .. TIME_MAX
ViewAll == [null |-> FALSE, all |-> TRUE, topics |-> {}, start_time |-> TIME_MIN, end_time |-> TIME_MAX]

\* rosbag::View(bag, rosbag::TopicQuery(topics), start_time, end_time)
ViewTopicQuery(topics, start_time, end_time) ==
    [null |-> FALSE, all |-> FALSE, topics |-> topics, start_time |-> start_time, end_time |-> end_time]

\* TopicQuery::operator(): the connection's topic is one of the listed topics
TopicQueryMatches(v, topic) == v.all \/ topic \in v.topics

InTimeRange_exclusiveEnd(t, start_time, end_time) == start_time <= t /\ t < end_time
\* View::updateQueries: lower_bound(start_time) .. upper_bound(end_time)
InTimeRange(t, start_time, end_time) == start_time <= t /\ t <= end_time

\* The positions in msgs of the messages view v selects.
ViewSelected(msgs, v) ==
    { i \in 1..Len(msgs) : /\ TopicQueryMatches(v, msgs[i].topic)
                           /\ InTimeRange(msgs[i].time, v.start_time, v.end_time) }

\* View::size()
ViewSize(msgs, v) == Cardinality(ViewSelected(msgs, v))

Min(S) == CHOOSE x \in S : \A y \in S : x <= y
Max(S) == CHOOSE x \in S : \A y \in S : x >= y

\* View::getBeginTime() / View::getEndTime()
ViewBeginTime(msgs, v) == Min({ msgs[i].time : i \in ViewSelected(msgs, v) } \cup {TIME_MAX})
ViewEndTime(msgs, v)   == Max({ msgs[i].time : i \in ViewSelected(msgs, v) } \cup {TIME_MIN})

\* The orders in which iterating view v can yield the selected messages:
\* merged by time; messages of one connection keep their order in the bag;
\* the order of messages of different connections at the same time is not fixed.
ViewOrders(msgs, v) ==
    LET sel == ViewSelected(msgs, v)
        n   == Cardinality(sel)
    IN { p \in [1..n -> sel] :
           /\ \A i \in 1..n : \A j \in 1..n : i # j => p[i] # p[j]
           /\ \A i \in 1..n : \A j \in 1..n : i < j =>
                 /\ msgs[p[i]].time <= msgs[p[j]].time
                 /\ (msgs[p[i]].topic = msgs[p[j]].topic /\ msgs[p[i]].time = msgs[p[j]].time)
                       => p[i] < p[j] }

\* View::getConnections(): the connections with a message in the view, in the
\* order of their connection ids (the order of their first message in the bag).
RECURSIVE ConnectionsFrom(_, _, _, _)
ConnectionsFrom(msgs, v, i, seen) ==
    IF i > Len(msgs) THEN <<>>
    ELSE IF msgs[i].topic \in seen THEN ConnectionsFrom(msgs, v, i + 1, seen)
    ELSE LET here == { j \in ViewSelected(msgs, v) : msgs[j].topic = msgs[i].topic }
             rest == ConnectionsFrom(msgs, v, i + 1, seen \cup {msgs[i].topic})
         IN IF here = {} THEN rest
            ELSE <<[topic |-> msgs[i].topic, datatype |-> msgs[i].datatype]>> \o rest

ViewConnections(msgs, v) == ConnectionsFrom(msgs, v, 1, {})

\* ------------------------------------------------- ConnectionsMap helpers
\* A std::map<std::string, std::string> is the set of its (key, value) pairs.
EmptyMap == {}
MapPut(m, key, value) == { p \in m : p[1] # key } \cup { <<key, value>> }   \* m[key] = value
Keys(m) == { p[1] : p \in m }

RECURSIVE SortedKeys(_)
SortedKeys(S) ==
    IF S = {} THEN <<>>
    ELSE LET first == CHOOSE x \in S : \A y \in S : TopicRank[x] <= TopicRank[y]
         IN <<first>> \o SortedKeys(S \ {first})

Range(s) == { s[i] : i \in DOMAIN s }

\* ------------------------------------------------------------------ calls
NoExport == [full |-> FALSE, all |-> FALSE, topics |-> {}, channels |-> {},
             connections |-> EmptyMap, counts |-> [t \in Topics |-> 0]]
NoArgs == [path |-> "", topics |-> {}, time_range |-> <<TIME_ZERO, TIME_ZERO>>]
Call(op, args, status, value) == [op |-> op, args |-> args, status |-> status, value |-> value]

Init ==
    /\ fs \in { [p \in LoadPaths |-> IF p = InPath THEN File(b) ELSE NoFile] : b \in Recordings }
    /\ alive = TRUE
    /\ _input_bag = ""
    /\ _bag = ClosedBag
    /\ _view = NullView
    /\ _connections = EmptyMap
    /\ ret = Call("rosbag_io", NoArgs, "ok", <<>>)
    /\ exported = NoExport

\* rosbag_io::rosbag_io()
Constructor ==
    /\ ~alive
    /\ alive' = TRUE
    /\ _input_bag' = ""
    /\ _bag' = ClosedBag
    /\ _view' = NullView
    /\ _connections' = EmptyMap
    /\ ret' = Call("rosbag_io", NoArgs, "ok", <<>>)
    /\ UNCHANGED <<fs, exported>>

\* rosbag_io::~rosbag_io()
Destructor ==
    /\ alive
    /\ alive' = FALSE
    /\ _bag' = ClosedBag
    /\ _view' = NullView
    /\ _connections' = EmptyMap
    /\ _input_bag' = ""
    /\ ret' = Call("~rosbag_io", NoArgs, "ok", <<>>)
    /\ UNCHANGED <<fs, exported>>

\* ------------------------------------------------------------------- load
\* rosbag_io.cpp 30-37: the view load builds for the topics it is given
LoadView_ignoringTopics(topics) == ViewAll
LoadView(topics) ==
    IF topics = {} THEN ViewAll
    ELSE ViewTopicQuery(topics, TIME_MIN, TIME_MAX)

\* rosbag_io.cpp 39-43: _connections.clear(); _connections[topic] = datatype
RECURSIVE BuildConnections(_, _)
BuildConnections(m, conns) ==
    IF conns = <<>> THEN m
    ELSE BuildConnections(MapPut(m, Head(conns).topic, Head(conns).datatype), Tail(conns))

\* What load(input_bag, topics) leaves in _connections when it opens msgs.
LoadConnections(msgs, topics) == BuildConnections(EmptyMap, ViewConnections(msgs, LoadView(topics)))

\* rosbag_io::load.  Bag::open throws when the bag already has a file open
\* (load never closes _bag) and when the file cannot be opened; it sets the
\* mode before it tries.  load rethrows before it reads topics.
load(input_bag, topics) ==
    /\ alive
    /\ _input_bag' = input_bag
    /\ IF _bag.isOpen \/ ~fs[input_bag].exists
       THEN /\ _bag' = [_bag EXCEPT !.mode = "Read"]
            /\ ret' = Call("load", [NoArgs EXCEPT !.path = input_bag], "BagException", <<>>)
            /\ UNCHANGED <<_view, _connections>>
       ELSE /\ _bag' = [isOpen |-> TRUE, mode |-> "Read", file |-> input_bag]
            /\ _view' = LoadView(topics)
            /\ _connections' = LoadConnections(fs[input_bag].msgs, topics)
            /\ ret' = Call("load", [NoArgs EXCEPT !.path = input_bag, !.topics = topics],
                           "ok", <<>>)
    /\ UNCHANGED <<fs, alive, exported>>

\* ---------------------------------------------------------------- getters
\* rosbag_io::get_connections
get_connections_value == _connections

\* rosbag_io::get_topics: the keys of the std::map, in key order
get_topics_value == SortedKeys(Keys(_connections))

get_time_range_beginOnly(msgs, v) ==
    IF ViewSize(msgs, v) = 0 THEN <<TIME_ZERO, TIME_ZERO>>
    ELSE <<ViewBeginTime(msgs, v), ViewBeginTime(msgs, v)>>
\* rosbag_io::get_time_range on a view that exists
get_time_range_value(msgs, v) ==
    IF ViewSize(msgs, v) = 0 THEN <<TIME_ZERO, TIME_ZERO>>
    ELSE <<ViewBeginTime(msgs, v), ViewEndTime(msgs, v)>>

get_connections ==
    /\ alive
    /\ ret' = Call("get_connections", NoArgs, "ok", get_connections_value)
    /\ UNCHANGED <<fs, alive, _input_bag, _bag, _view, _connections, exported>>

get_topics ==
    /\ alive
    /\ ret' = Call("get_topics", NoArgs, "ok", get_topics_value)
    /\ UNCHANGED <<fs, alive, _input_bag, _bag, _view, _connections, exported>>

\* rosbag_io::get_time_range.  With no view, _view->size() dereferences a null
\* shared_ptr: the call may end the process or return any pair.
get_time_range ==
    /\ alive
    /\ IF _view.null
       THEN \/ /\ ret' = Call("get_time_range", NoArgs, "crash", <<>>)
               /\ alive' = FALSE
               /\ _input_bag' = ""
               /\ _bag' = ClosedBag
               /\ _connections' = EmptyMap
               /\ UNCHANGED <<fs, _view, exported>>
            \/ /\ \E v \in TimeRanges : ret' = Call("get_time_range", NoArgs, "ok", v)
               /\ UNCHANGED <<fs, alive, _input_bag, _bag, _view, _connections, exported>>
       ELSE /\ ret' = Call("get_time_range", NoArgs, "ok", get_time_range_value(BagMessages, _view))
            /\ UNCHANGED <<fs, alive, _input_bag, _bag, _view, _connections, exported>>

\* ------------------------------------------------------------------- dump
HasTimeRange_and(time_range) == time_range[1] # TIME_ZERO /\ time_range[2] # TIME_ZERO
\* rosbag_io.cpp 100: a time range is given unless both ends are ros::Time(0)
HasTimeRange(time_range) == time_range[1] # TIME_ZERO \/ time_range[2] # TIME_ZERO

\* rosbag_io.cpp 89-106: the view dump exports
DumpView(topics, time_range) ==
    IF HasTimeRange(time_range)
    THEN ViewTopicQuery(topics, time_range[1], time_range[2])
    ELSE IF topics = {} THEN ViewAll
         ELSE ViewTopicQuery(topics, TIME_MIN, TIME_MAX)

\* Bag::write(topic, time, msg, connection_header): appends the message on the
\* connection its header describes.
BagWrite(out, topic, time, msg, connection_header) ==
    Append(out, Message(topic, time, connection_header.datatype, msg.payload))

RECURSIVE WriteAll_dropLast(_, _)
WriteAll_dropLast(out, msgs) ==
    IF Len(msgs) <= 1 THEN out
    ELSE WriteAll_dropLast(BagWrite(out, Head(msgs).topic, Head(msgs).time, Head(msgs),
                                    [datatype |-> Head(msgs).datatype]), Tail(msgs))
RECURSIVE WriteAll_twice(_, _)
WriteAll_twice(out, msgs) ==
    IF msgs = <<>> THEN out
    ELSE LET one == BagWrite(out, Head(msgs).topic, Head(msgs).time, Head(msgs),
                             [datatype |-> Head(msgs).datatype])
         IN WriteAll_twice(BagWrite(one, Head(msgs).topic, Head(msgs).time, Head(msgs),
                                    [datatype |-> Head(msgs).datatype]), Tail(msgs))
\* rosbag_io.cpp 108-111: for (msg : *dump_view) out_bag.write(msg.getTopic(),
\* msg.getTime(), msg, msg.getConnectionHeader())
RECURSIVE WriteAll(_, _)
WriteAll(out, msgs) ==
    IF msgs = <<>> THEN out
    ELSE WriteAll(BagWrite(out, Head(msgs).topic, Head(msgs).time, Head(msgs),
                           [datatype |-> Head(msgs).datatype]), Tail(msgs))

\* Number of messages per topic that view v selects.
CountsPerTopic(msgs, v) ==
    [t \in Topics |-> Cardinality({ i \in ViewSelected(msgs, v) : msgs[i].topic = t })]

DumpSessionEffect_storesView(dump_view) ==
    /\ _view' = dump_view
    /\ UNCHANGED <<_input_bag, _bag, _connections>>
\* rosbag_io.cpp 74-114: dump_view and out_bag are locals; no member is assigned
DumpSessionEffect(dump_view) == UNCHANGED <<_input_bag, _bag, _view, _connections>>

\* rosbag_io::dump.  The output must not be the file the session is reading.
dump(output_bag, topics, time_range) ==
    /\ alive
    /\ ~(_bag.isOpen /\ _bag.file = output_bag)
    /\ LET args == [path |-> output_bag, topics |-> topics, time_range |-> time_range] IN
       IF output_bag = BadPath
       THEN \* out_bag.open throws and dump rethrows, before topics or time_range are read
            /\ ret' = Call("dump", [NoArgs EXCEPT !.path = output_bag], "BagException", <<>>)
            /\ UNCHANGED <<fs, alive, _input_bag, _bag, _view, _connections, exported>>
       ELSE IF _bag.mode # "Read"
       THEN \* the output exists; the View constructor throws "Bag not opened for reading"
            /\ fs' = [fs EXCEPT ![output_bag] = File(<<>>)]
            /\ ret' = Call("dump", args, "BagException", <<>>)
            /\ exported' = NoExport
            /\ UNCHANGED <<alive, _input_bag, _bag, _view, _connections>>
       ELSE LET dump_view == DumpView(topics, time_range)
                msgs == BagMessages
            IN /\ \E order \in ViewOrders(msgs, dump_view) :
                     fs' = [fs EXCEPT ![output_bag] =
                               File(WriteAll(<<>>, [i \in 1..Len(order) |-> msgs[order[i]]]))]
               /\ ret' = Call("dump", args, "ok", <<>>)
               /\ exported' =
                     IF topics = {} /\ time_range = <<TIME_ZERO, TIME_ZERO>> /\ ~_view.null
                     THEN [full |-> TRUE, all |-> _view.all, topics |-> _view.topics,
                           channels |-> { msgs[i].topic : i \in 1..Len(msgs) },
                           connections |-> _connections,
                           counts |-> CountsPerTopic(msgs, _view)]
                     ELSE NoExport
               /\ DumpSessionEffect(dump_view)
               /\ UNCHANGED alive

Next ==
    \/ Constructor
    \/ Destructor
    \/ \E input_bag \in LoadPaths, topics \in Requests : load(input_bag, topics)
    \/ get_connections
    \/ get_topics
    \/ get_time_range
    \/ \E topics \in Requests, time_range \in TimeRanges : dump(OutPath, topics, time_range)
    \/ dump(BadPath, {}, <<TIME_ZERO, TIME_ZERO>>)    \* fails whatever the other arguments

Spec == Init /\ [][Next]_vars

\* ================================================================= claims
Loaded == ~_view.null
Channels(msgs) == { msgs[i].topic : i \in 1..Len(msgs) }
Payloads(msgs) == { msgs[i].payload : i \in 1..Len(msgs) }
DumpDone == ret.op = "dump" /\ ret.status = "ok" /\ Loaded
Source == BagMessages
Output == fs[OutPath].msgs
Sentinel == <<TIME_ZERO, TIME_ZERO>>

\* C1: after a successful load(R, S), get_topics() returns, without repeats,
\* exactly the channels of S that exist in R when S is non-empty, and exactly
\* the channels of R when S is empty.
C1_TopicsAfterLoad ==
    (ret.op = "load" /\ ret.status = "ok") =>
        /\ Cardinality(Range(get_topics_value)) = Len(get_topics_value)
        /\ Range(get_topics_value) =
              IF ret.args.topics = {} THEN Channels(fs[ret.args.path].msgs)
              ELSE ret.args.topics \cap Channels(fs[ret.args.path].msgs)

C1_Witness ==
    /\ ret.op = "load" /\ ret.status = "ok"
    /\ ret.args.topics = {"/a"}
    /\ Channels(Source) = {"/a", "/b"}
    /\ get_topics_value = <<"/a">>

\* C2: in a loaded session, dump with a non-empty channel list S and a bounded
\* range start <= end writes exactly the source messages whose channel is in S
\* and whose time t satisfies start <= t <= end, each once.
C2_DumpBoundedRange ==
    (DumpDone /\ ret.args.topics # {} /\ ret.args.time_range # Sentinel) =>
        /\ Range(Output) =
              { Source[i] : i \in { j \in 1..Len(Source) :
                    /\ Source[j].topic \in ret.args.topics
                    /\ ret.args.time_range[1] <= Source[j].time
                    /\ Source[j].time <= ret.args.time_range[2] } }
        /\ Cardinality(Range(Output)) = Len(Output)

C2_Witness ==
    /\ DumpDone
    /\ ret.args.topics = {"/a"} /\ ret.args.time_range = <<1, 1>>
    /\ Len(Source) = 2
    /\ Source[1].topic = "/a" /\ Source[1].time = 1
    /\ Source[2].topic = "/a" /\ Source[2].time = 2
    /\ Len(Output) = 1 /\ Output[1].time = 1

\* C3: in dump an empty channel list means all channels whatever the time
\* range: with a bounded range it writes every source message of every channel
\* whose time lies in the range, with the sentinel every source message.
C3_EmptyTopicsMeansAll ==
    (DumpDone /\ ret.args.topics = {}) =>
        Range(Output) =
            IF ret.args.time_range = Sentinel THEN Range(Source)
            ELSE { Source[i] : i \in { j \in 1..Len(Source) :
                      /\ ret.args.time_range[1] <= Source[j].time
                      /\ Source[j].time <= ret.args.time_range[2] } }

\* C4: dump applies no time filter exactly when the range is the sentinel
\* (0, 0): then it writes every source message on the selected channels; with
\* any other range it writes no message whose time is outside the range, and
\* (for a non-empty channel list) every message on the listed channels inside it.
C4_SentinelMeansNoTimeFilter ==
    DumpDone =>
        LET S == ret.args.topics
            r == ret.args.time_range
        IN IF r = Sentinel
           THEN Range(Output) =
                   { Source[i] : i \in { j \in 1..Len(Source) : S = {} \/ Source[j].topic \in S } }
           ELSE /\ \A i \in 1..Len(Output) : r[1] <= Output[i].time /\ Output[i].time <= r[2]
                /\ S # {} =>
                     \A j \in 1..Len(Source) :
                        (Source[j].topic \in S /\ r[1] <= Source[j].time /\ Source[j].time <= r[2])
                           => Source[j] \in Range(Output)

C4_Witness ==
    /\ DumpDone
    /\ ret.args.topics = {"/a"} /\ ret.args.time_range = <<0, 1>>
    /\ Len(Source) = 2 /\ Source[1].topic = "/a" /\ Source[2].topic = "/a"
    /\ Source[1].time = 1 /\ Source[2].time = 2
    /\ Len(Output) = 1

\* C5: on a session on which no load has succeeded, get_connections,
\* get_topics, get_time_range and dump each fail with NotLoadedError; none
\* returns a value or creates an output recording.
C5_NotLoadedError ==
    (ret.op \in {"get_connections", "get_topics", "get_time_range", "dump"} /\ ~Loaded) =>
        /\ ret.status = "NotLoadedError"
        /\ ~fs[OutPath].exists

\* C6: load(R2, S2) on a session that is already loaded replaces the prior
\* state: afterwards the session reads R2 and get_connections, get_topics and
\* get_time_range return what they return on a fresh session after load(R2, S2).
C6_ReloadReplaces ==
    (ret.op = "load" /\ fs[ret.args.path].exists) =>
        /\ ret.status = "ok"
        /\ _bag.isOpen /\ _bag.file = ret.args.path
        /\ _input_bag = ret.args.path
        /\ get_connections_value = LoadConnections(fs[ret.args.path].msgs, ret.args.topics)
        /\ get_topics_value =
              SortedKeys(Keys(LoadConnections(fs[ret.args.path].msgs, ret.args.topics)))
        /\ get_time_range_value(BagMessages, _view) =
              get_time_range_value(fs[ret.args.path].msgs, LoadView(ret.args.topics))

\* What a successful load(OutPath, {}) finds after a dump of everything
\* (empty channel list, sentinel range) made by a loaded session.
RoundTripDone ==
    /\ ret.op = "load" /\ ret.status = "ok"
    /\ ret.args.path = OutPath /\ ret.args.topics = {}
    /\ exported.full
RoundTripSame ==
    /\ _connections = exported.connections
    /\ CountsPerTopic(BagMessages, _view) = exported.counts

\* C7 (as stated): for any load(R, S), S empty or not, dump(out, {}, sentinel)
\* followed by load(out, {}) yields the ConnectionsMap and the number of
\* messages per channel that the original load exposed.
C7_RoundTripAnyS == RoundTripDone => RoundTripSame

\* C7 (amended): the same, for a load(R, S) whose S is empty or names every
\* channel of R.
C7_RoundTrip ==
    (RoundTripDone /\ (exported.all \/ exported.channels \subseteq exported.topics))
        => RoundTripSame

C7_Witness ==
    /\ RoundTripDone
    /\ ~exported.all /\ exported.topics = {"/a", "/b"} /\ exported.channels = {"/a", "/b"}
    /\ Len(BagMessages) = 2
    /\ Keys(_connections) = {"/a", "/b"}

\* C8: in a loaded session get_time_range() returns (minimum time, maximum
\* time) over the messages on the channels the load selected, and (0, 0) when
\* there is none; the call leaves the session as it was, so a second call
\* returns the same pair.
C8_TimeRangeValue ==
    (ret.op = "get_time_range" /\ Loaded) =>
        LET times == { Source[i].time : i \in { j \in 1..Len(Source) :
                          _view.all \/ Source[j].topic \in _view.topics } }
        IN /\ ret.status = "ok"
           /\ times = {} => ret.value = Sentinel
           /\ times # {} =>
                 /\ ret.value[1] \in times /\ \A t \in times : ret.value[1] <= t
                 /\ ret.value[2] \in times /\ \A t \in times : t <= ret.value[2]
C8_TimeRange ==
    /\ []C8_TimeRangeValue
    /\ [][(Loaded /\ ret'.op = "get_time_range") =>
             /\ UNCHANGED <<fs, alive, _input_bag, _bag, _view, _connections>>
             /\ (ret.op = "get_time_range" => ret' = ret)]_vars

C8_Witness ==
    /\ ret.op = "get_time_range" /\ Loaded
    /\ _view.topics = {"/a"}
    /\ Channels(Source) = {"/a"}
    /\ ret.value = <<1, 2>>

C10_DumpKeepsOrder ==
    DumpDone =>
        /\ \E order \in ViewOrders(Source, DumpView(ret.args.topics, ret.args.time_range)) :
              /\ Len(Output) = Len(order)
              /\ \A i \in 1..Len(order) :
                    /\ Output[i].topic = Source[order[i]].topic
                    /\ Output[i].time = Source[order[i]].time
                    /\ Output[i].payload = Source[order[i]].payload
                    /\ Output[i].datatype = Source[order[i]].datatype
        /\ \A i \in 1..Len(Output) : \A j \in 1..Len(Output) :
              i < j => /\ Output[i].payload # Output[j].payload
                       /\ Output[i].time <= Output[j].time

C10_Witness ==
    /\ DumpDone
    /\ Len(Output) = 2
    /\ Output[1].topic # Output[2].topic
    /\ Output[1].time < Output[2].time
====
